---- MODULE Spec2Model ----
(***************************************************************************)
(* Call log of the voip_webrtc_freepbx addon: the voip.call and            *)
(* voip.recording records, the endpoints of VoipController that create,    *)
(* update and search them, and the record methods of VoipCall and          *)
(* VoipRecording.                                                          *)
(***************************************************************************)
EXTENDS Integers, Sequences, FiniteSets, TLC

\* ------------------------------------------------------------------ bounds
MaxCalls == 1
MaxTime == 2
NumRequests == 2

\* ------------------------------------------------------------ value domains
\* Python's None / False: the value of a field that was never written and of
\* kwargs.get(key) when the key is absent.
None == "None"
\* A Datetime field that holds no value (falsy); real timestamps are 1..MaxTime.
Unset == 0
\* A Many2one field that points at no record, and an id no record has.
NoId == 0

Times == 1..MaxTime
TimeInputs == {Unset} \cup Times

\* voip.call.state selection
CallStates ==
  {"ringing", "in_progress", "completed", "missed", "failed", "busy", "rejected"}
\* voip.call.direction selection
Directions == {"inbound", "outbound"}

\* the state values update_call treats as ending the call
EndStates == {"completed", "missed", "failed", "rejected", "busy"}

\* what a client can send
StateInputs == CallStates \cup {"bogus"}
DirectionInputs == Directions \cup {None, "sideways"}
FromInputs == {None, "", "1001"}
ToInputs == {None, "5551234567"}
ReasonInputs == {None, "no-answer"}

\* keys create_call does not read, as a client may add them
ExtraInputs ==
  { [state |-> None, answer_time |-> Unset, end_time |-> Unset],
    [state |-> "completed", answer_time |-> 1, end_time |-> 1] }

CreateKwargs ==
  [direction : DirectionInputs, from_number : FromInputs, to_number : ToInputs,
   extra : ExtraInputs]

UpdateKwargs ==
  [answer_time : TimeInputs, end_time : TimeInputs, hangup_reason : ReasonInputs]
NoKwargs == [answer_time |-> Unset, end_time |-> Unset, hangup_reason |-> None]

\* res.users that can log in, and the voip.user rows configured for them
OdooUsers == {1, 2}
VoipUserTable ==
  { [id |-> 10, user_id |-> 1, active |-> TRUE],
    [id |-> 11, user_id |-> 2, active |-> FALSE] }

Requests == 1..NumRequests

\* ---------------------------------------------------------- phone numbers
\* The characters of every phone string a client sends or a contact stores.
PhoneStrings ==
  {"", "-", "1001", "555", "5551234567", "(555) 123-4567", "07700"}
Chars(s) ==
  CASE s = "" -> <<>>
    [] s = "-" -> <<"-">>
    [] s = "1001" -> <<"1", "0", "0", "1">>
    [] s = "555" -> <<"5", "5", "5">>
    [] s = "5551234567" -> <<"5", "5", "5", "1", "2", "3", "4", "5", "6", "7">>
    [] s = "(555) 123-4567" ->
         <<"(", "5", "5", "5", ")", " ", "1", "2", "3", "-", "4", "5", "6", "7">>
    [] s = "07700" -> <<"0", "7", "7", "0", "0">>

\* res.partner rows: the contact directory
PartnerIds == {1, 2}
StoredPhones == {None, "5551234567", "(555) 123-4567"}
StoredMobiles == {None, "07700"}
Directories == [PartnerIds -> [phone : StoredPhones, mobile : StoredMobiles]]
DefaultDirectory ==
  [p \in PartnerIds |->
     IF p = 1 THEN [phone |-> "5551234567", mobile |-> None]
     ELSE [phone |-> None, mobile |-> "07700"]]

\* --------------------------------------------------------------- variables
VARIABLES
  calls,   \* the voip.call table: calls[id] is the record with that id
  now,     \* the server clock
  resp,    \* the answer of the last operation
  req,     \* requests in flight (concurrent processing only)
  recordings,  \* the voip.recording table
  partners     \* the res.partner table

vars == <<calls, now, resp, req, recordings, partners>>

\* an answer that carries a record id (recording_id, partner id) as well
NoUrl == <<>>
NoList == <<>>

\* an answer in full: the payload is a record id, a URL or a list of records
\* (has_flag: the answer carries a 'success' key)
Answer(op, id, ok, err, result, url, list) ==
  [op |-> op, call_id |-> id, success |-> ok, error |-> err, result |-> result,
   url |-> url, list |-> list, has_flag |-> TRUE]

\* json.dumps({'error': err}): a failure answer without a 'success' key
ErrorOnly(op, id, err) ==
  [Answer(op, id, FALSE, err, NoId, NoUrl, NoList) EXCEPT !.has_flag = FALSE]

RespUrl(op, id, ok, err, result, url) == Answer(op, id, ok, err, result, url, NoList)

RespWith(op, id, ok, err, result) == RespUrl(op, id, ok, err, result, NoUrl)

Resp(op, id, ok, err) == RespWith(op, id, ok, err, NoId)

IdleReq == [pc |-> "idle"]

Init ==
  /\ calls = <<>>
  /\ now = 1
  /\ resp = Resp("none", 0, TRUE, None)
  /\ req = [r \in Requests |-> IdleReq]
  /\ recordings = <<>>
  /\ partners = DefaultDirectory

\* ------------------------------------------------------------- ORM helpers
\* kwargs.get(key, default)
Get(value, default) == IF value = None THEN default ELSE value

\* `x or y` on timestamps
Or(x, y) == IF x # Unset THEN x ELSE y

\* request.env['voip.user'].search([user_id = u, active = True], limit=1)
SearchVoipUser(u) == {v \in VoipUserTable : v.user_id = u /\ v.active}

\* request.env['voip.call'].browse(id).exists()
Exists(id) == id \in DOMAIN calls

\* _compute_duration: end_time - answer_time when both are set, else 0.0
compute_duration(rec) ==
  IF rec.answer_time # Unset /\ rec.end_time # Unset
  THEN rec.end_time - rec.answer_time
  ELSE 0

\* The ORM refuses a value outside a Selection field's list (ValueError) ...
SelectionOk(vals) ==
  /\ ("state" \in DOMAIN vals => vals.state \in CallStates)
  /\ ("direction" \in DOMAIN vals => vals.direction \in Directions)

\* ... and required=True is a NOT NULL column: a missing value is refused, an
\* empty string is a value.
RequiredOk(vals) ==
  \A f \in {"direction", "state", "from_number", "to_number"} :
     f \in DOMAIN vals => vals[f] # None

\* record.write(vals): the given fields are replaced, the stored computed
\* field duration is recomputed from answer_time and end_time.
Write(rec, vals) ==
  LET merged == [f \in DOMAIN rec |-> IF f \in DOMAIN vals THEN vals[f] ELSE rec[f]]
  IN  [merged EXCEPT !.duration = compute_duration(merged)]

\* VoipCall.create(vals): field defaults, then the insert
NewCall(vals) ==
  Write([user_id |-> None, direction |-> None, state |-> "ringing",
         from_number |-> None, to_number |-> None, partner_id |-> NoId,
         start_time |-> now, answer_time |-> Unset, end_time |-> Unset,
         duration |-> 0, hangup_reason |-> None],
        vals)

\* ------------------------------------------------------------- the clock
Tick ==
  /\ now < MaxTime
  /\ now' = now + 1
  /\ UNCHANGED <<calls, resp, req, recordings, partners>>

\* ------------------------------------------------- POST /voip/call/create
\* call_data taking the initial state from the request, as create_recording
\* does for recordings
call_data_state_from_request(voip_user, kw) ==
  [user_id |-> voip_user.id,
   direction |-> Get(kw.direction, "outbound"),
   from_number |-> kw.from_number,
   to_number |-> kw.to_number,
   state |-> Get(kw.extra.state, "ringing")]

\* the dict create_call hands to the ORM; kwargs other than these are dropped
\* (the SIP call_id and the sequence-generated name play no part in the call's
\* lifecycle and are left out of the record)
call_data(voip_user, kw) ==
  [user_id |-> voip_user.id,
   direction |-> Get(kw.direction, "outbound"),
   from_number |-> kw.from_number,
   to_number |-> kw.to_number,
   state |-> "ringing"]

create_call(u, kw) ==
  /\ UNCHANGED <<now, req, recordings, partners>>
  /\ IF SearchVoipUser(u) = {}
     THEN /\ resp' = Resp("create_call", 0, FALSE, "No VoIP user found")
          /\ UNCHANGED calls
     ELSE LET voip_user == CHOOSE v \in SearchVoipUser(u) : TRUE
              vals == call_data(voip_user, kw)
          IN  IF ~SelectionOk(vals)
              THEN /\ resp' = Resp("create_call", 0, FALSE, "Wrong value")
                   /\ UNCHANGED calls
              ELSE IF ~RequiredOk(vals)
              THEN /\ resp' = Resp("create_call", 0, FALSE, "null value")
                   /\ UNCHANGED calls
              ELSE /\ Len(calls) < MaxCalls
                   /\ calls' = Append(calls, NewCall(vals))
                   /\ resp' = Resp("create_call", Len(calls) + 1, TRUE, None)

\* ------------------------------------------------- POST /voip/call/update
EmptyVals == [f \in {} |-> None]

\* update_vals that also rewrites the direction of the call
update_vals_with_direction(rec, state, kw) ==
  [state |-> state, direction |-> "inbound"]
  @@ (IF state = "in_progress" /\ rec.answer_time = Unset
      THEN [answer_time |-> Or(kw.answer_time, now)]
      ELSE EmptyVals)
  @@ (IF state \in EndStates
      THEN [end_time |-> Or(kw.end_time, now),
            hangup_reason |-> Get(kw.hangup_reason, "normal")]
      ELSE EmptyVals)

\* update_vals as update_call builds it from the record it browsed
update_vals(rec, state, kw) ==
  [state |-> state]
  @@ (IF state = "in_progress" /\ rec.answer_time = Unset
      THEN [answer_time |-> Or(kw.answer_time, now)]
      ELSE EmptyVals)
  @@ (IF state \in EndStates
      THEN [end_time |-> Or(kw.end_time, now),
            hangup_reason |-> Get(kw.hangup_reason, "normal")]
      ELSE EmptyVals)

update_call(id, state, kw) ==
  /\ UNCHANGED <<now, req, recordings, partners>>
  /\ IF ~Exists(id)
     THEN /\ resp' = Resp("update_call", id, FALSE, "Call not found")
          /\ UNCHANGED calls
     ELSE LET vals == update_vals(calls[id], state, kw)
          IN  IF ~SelectionOk(vals)
              THEN /\ resp' = Resp("update_call", id, FALSE, "Wrong value")
                   /\ UNCHANGED calls
              ELSE /\ calls' = [calls EXCEPT ![id] = Write(@, vals)]
                   /\ resp' = Resp("update_call", id, TRUE, None)

\* ------------------------------------------------ voip.call record methods
action_start_call(id) ==
  /\ Exists(id)
  /\ UNCHANGED <<now, req, recordings, partners>>
  /\ calls' = IF calls[id].state = "ringing"
              THEN [calls EXCEPT ![id] =
                      Write(@, [state |-> "in_progress", answer_time |-> now])]
              ELSE calls
  /\ resp' = Resp("action_start_call", id, TRUE, None)

\* action_end_call without the ringing branch: every live call ends completed
end_call_vals_always_completed(state, reason) ==
  [end_time |-> now, hangup_reason |-> reason]
  @@ (IF state \in {"ringing", "in_progress"} THEN [state |-> "completed"]
      ELSE [f \in {} |-> None])

\* the vals action_end_call writes for a record in state `state`
end_call_vals(state, reason) ==
  [end_time |-> now, hangup_reason |-> reason]
  @@ (IF state = "ringing" THEN [state |-> "missed"]
      ELSE IF state = "in_progress" THEN [state |-> "completed"]
      ELSE EmptyVals)

action_end_call(id, reason) ==
  /\ Exists(id)
  /\ UNCHANGED <<now, req, recordings, partners>>
  /\ calls' = [calls EXCEPT ![id] = Write(@, end_call_vals(@.state, reason))]
  /\ resp' = Resp("action_end_call", id, TRUE, None)

action_mark_as_missed(id) ==
  /\ Exists(id)
  /\ UNCHANGED <<now, req, recordings, partners>>
  /\ calls' = [calls EXCEPT ![id] = Write(@, [state |-> "missed", end_time |-> now])]
  /\ resp' = Resp("action_mark_as_missed", id, TRUE, None)

\* ------------------------------------------------------------ specification
CallIdInputs == 1..(MaxCalls + 1)
EndReasons == {"normal", "no-answer"}

Next ==
  \/ Tick
  \/ \E u \in OdooUsers, kw \in CreateKwargs : create_call(u, kw)
  \/ \E id \in CallIdInputs, s \in StateInputs :
        \E kw \in (IF Exists(id) THEN UpdateKwargs ELSE {NoKwargs}) :
           update_call(id, s, kw)
  \/ \E id \in CallIdInputs : action_start_call(id)
  \/ \E id \in CallIdInputs, r \in EndReasons : action_end_call(id, r)
  \/ \E id \in CallIdInputs : action_mark_as_missed(id)

Spec == Init /\ [][Next]_vars

\* ---------------------------------------- update_call, requests interleaved
\* Two update_call requests are served by separate workers, each in its own
\* transaction: the handler first browses the record and builds update_vals
\* from what it sees, then writes.  The handler holds no lock and compares no
\* revision between the two steps.
ReqRec(pc, id, seen, vals, ok, err) ==
  [pc |-> pc, call_id |-> id, seen |-> seen, vals |-> vals,
   success |-> ok, error |-> err]

update_call_read(r, id, state, kw) ==
  /\ req[r].pc = "idle"
  /\ UNCHANGED <<calls, now, resp, recordings, partners>>
  /\ IF ~Exists(id)
     THEN req' = [req EXCEPT ![r] =
                    ReqRec("done", id, EmptyVals, EmptyVals, FALSE, "Call not found")]
     ELSE req' = [req EXCEPT ![r] =
                    ReqRec("write", id, calls[id],
                           update_vals(calls[id], state, kw), TRUE, None)]

update_call_write(r) ==
  /\ req[r].pc = "write"
  /\ UNCHANGED <<now, recordings, partners>>
  /\ LET id == req[r].call_id
         vals == req[r].vals
     IN  IF ~SelectionOk(vals)
         THEN /\ req' = [req EXCEPT ![r].pc = "done", ![r].success = FALSE,
                                    ![r].error = "Wrong value"]
              /\ resp' = Resp("update_call", id, FALSE, "Wrong value")
              /\ UNCHANGED calls
         ELSE /\ calls' = [calls EXCEPT ![id] = Write(@, vals)]
              /\ req' = [req EXCEPT ![r].pc = "done"]
              /\ resp' = Resp("update_call", id, TRUE, None)

\* the requests of the interleaved runs: well-formed creates, and updates that
\* leave the timestamps to the server
PlainCreateKwargs ==
  {kw \in CreateKwargs :
     kw.direction \in Directions /\ kw.from_number = "1001" /\ kw.extra.state = None}
ServerTimeKwargs ==
  {kw \in UpdateKwargs : kw.answer_time = Unset /\ kw.end_time = Unset}

NextConc ==
  \/ Tick
  \/ \E u \in OdooUsers, kw \in PlainCreateKwargs : create_call(u, kw)
  \/ \E r \in Requests, id \in CallIdInputs, s \in StateInputs :
        \E kw \in (IF Exists(id) THEN ServerTimeKwargs ELSE {NoKwargs}) :
           update_call_read(r, id, s, kw)
  \/ \E r \in Requests : update_call_write(r)

SpecConc == Init /\ [][NextConc]_vars

\* ============================================================== recordings
MaxRecs == 1

\* voip.recording selections
RecordingStates == {"recording", "completed", "failed"}
RecordingTypes == {"automatic", "manual"}
Formats == {"wav", "mp3", "ogg"}

\* what a client can send to /voip/recording/create
RecKwargs ==
  {[recording_type |-> None, state |-> None, format |-> None],
   [recording_type |-> "manual", state |-> "completed", format |-> "mp3"],
   [recording_type |-> None, state |-> "bogus", format |-> None],
   [recording_type |-> None, state |-> None, format |-> "webm"]}

\* uploaded files: the multipart part may be absent; a part has a filename
\* and bytes
Payloads == {<<>>, <<77>>, <<77, 97, 110>>}
NoFile == [present |-> FALSE, filename |-> "", data |-> <<>>]
FileInputs ==
  {NoFile, [present |-> TRUE, filename |-> "", data |-> <<77>>]}
    \cup [present : {TRUE}, filename : {"x.webm"}, data : Payloads]

\* `not file_data`: None, or a FileStorage whose filename is empty
Falsy(file) == ~file.present \/ file.filename = ""

\* base64.b64encode: 4 characters (values 0..63, 64 for '=') per 3 bytes
b64encode(bytes) ==
  LET n == Len(bytes)
      byte(k) == IF k <= n THEN bytes[k] ELSE 0
      real(i) == IF n - 3 * (i - 1) >= 3 THEN 3 ELSE n - 3 * (i - 1)
      word(i) == byte(3 * i - 2) * 65536 + byte(3 * i - 1) * 256 + byte(3 * i)
  IN  [k \in 1..(4 * ((n + 2) \div 3)) |->
         LET i == ((k - 1) \div 4) + 1
             j == (k - 1) % 4
         IN  IF j > real(i) THEN 64
             ELSE (word(i) \div (64 ^ (3 - j))) % 64]

RecExists(id) == id \in DOMAIN recordings

\* the ORM's check of the Selection fields of voip.recording
RecSelectionOk(vals) ==
  /\ ("state" \in DOMAIN vals => vals.state \in RecordingStates)
  /\ ("recording_type" \in DOMAIN vals => vals.recording_type \in RecordingTypes)
  /\ ("format" \in DOMAIN vals => vals.format \in Formats)

\* recording.write(vals)
RecWrite(rec, vals) ==
  [f \in DOMAIN rec |-> IF f \in DOMAIN vals THEN vals[f] ELSE rec[f]]

\* VoipRecording.create(vals): field defaults, then the insert.  A Binary
\* field without content reads as empty.
NewRecording(vals) ==
  RecWrite([call_id |-> NoId, recording_type |-> "automatic",
            state |-> "recording", format |-> "wav",
            recording_file |-> <<>>, recording_filename |-> None,
            file_size |-> 0, duration |-> 0, shared_with |-> {}],
           vals)

\* --------------------------------------------- POST /voip/recording/create
recording_data(call_id, kw) ==
  [call_id |-> call_id,
   recording_type |-> Get(kw.recording_type, "automatic"),
   state |-> Get(kw.state, "recording"),
   format |-> Get(kw.format, "wav")]

create_recording(call_id, kw) ==
  /\ UNCHANGED <<calls, now, req, partners>>
  /\ IF ~Exists(call_id)
     THEN /\ resp' = Resp("create_recording", call_id, FALSE, "Call not found")
          /\ UNCHANGED recordings
     ELSE LET vals == recording_data(call_id, kw)
          IN  IF ~RecSelectionOk(vals)
              THEN /\ resp' = Resp("create_recording", call_id, FALSE, "Wrong value")
                   /\ UNCHANGED recordings
              ELSE /\ Len(recordings) < MaxRecs
                   /\ recordings' = Append(recordings, NewRecording(vals))
                   /\ resp' = RespWith("create_recording", call_id, TRUE, None,
                                       Len(recordings) + 1)

\* --------------------------------------------- POST /voip/recording/upload
\* upload vals that attach the file but leave the state as it is
upload_vals_without_state(file) ==
  LET file_content == b64encode(file.data)
  IN  [recording_file |-> file_content,
       recording_filename |-> file.filename,
       file_size |-> Len(file_content)]

\* the vals upload_recording writes for an uploaded file
upload_vals(file) ==
  LET file_content == b64encode(file.data)
  IN  [recording_file |-> file_content,
       recording_filename |-> file.filename,
       file_size |-> Len(file_content),
       state |-> "completed"]

\* upload_recording without the exists() check: an unknown id is answered
\* as a success
upload_recording_without_exists(recording_id, file) ==
  /\ UNCHANGED <<calls, now, req, partners>>
  /\ IF ~RecExists(recording_id) \/ Falsy(file)
     THEN /\ resp' = RespWith("upload_recording", NoId, ~RecExists(recording_id),
                              IF RecExists(recording_id) THEN "No file provided"
                              ELSE None,
                              recording_id)
          /\ UNCHANGED recordings
     ELSE /\ recordings' = [recordings EXCEPT ![recording_id] =
                              RecWrite(@, upload_vals(file))]
          /\ resp' = RespWith("upload_recording", NoId, TRUE, None, recording_id)

upload_recording(recording_id, file) ==
  /\ UNCHANGED <<calls, now, req, partners>>
  /\ IF ~RecExists(recording_id)
     THEN /\ resp' = RespWith("upload_recording", NoId, FALSE,
                              "Recording not found", recording_id)
          /\ UNCHANGED recordings
     ELSE IF Falsy(file)
     THEN /\ resp' = RespWith("upload_recording", NoId, FALSE,
                              "No file provided", recording_id)
          /\ UNCHANGED recordings
     ELSE /\ recordings' = [recordings EXCEPT ![recording_id] =
                              RecWrite(@, upload_vals(file))]
          /\ resp' = RespWith("upload_recording", NoId, TRUE, None, recording_id)

\* ------------------------------- POST /voip_webrtc_freepbx/save_recording
\* form fields arrive as strings; int() raises on anything but an integer
FormCallIds == {None, "1", "2", "abc"}
FormDurations == {None, "12", "12.5"}
IsInt(str) == str \in {"0", "1", "2", "12"}
int(str) ==
  CASE str = "0" -> 0 [] str = "1" -> 1 [] str = "2" -> 2 [] str = "12" -> 12

\* the dict save_recording hands to the ORM
save_recording_data(call_id, duration, file) ==
  [call_id |-> call_id,
   duration |-> duration,
   state |-> "completed",
   recording_file |-> b64encode(file.data),
   recording_filename |-> "call_recording.webm",
   file_size |-> Len(file.data)]

save_recording(file, call_id_form, duration_form) ==
  LET call_id_str == Get(call_id_form, "0")
      duration_str == Get(duration_form, "0")
      fail(id, err) ==
        /\ resp' = ErrorOnly("save_recording", id, err)
        /\ UNCHANGED recordings
  IN  /\ UNCHANGED <<calls, now, req, partners>>
      /\ IF ~IsInt(duration_str) THEN fail(NoId, "invalid literal for int()")
         ELSE IF ~IsInt(call_id_str) THEN fail(NoId, "Invalid call_id")
         ELSE IF Falsy(file) THEN fail(int(call_id_str), "No recording file provided")
         ELSE IF ~Exists(int(call_id_str)) THEN fail(int(call_id_str), "Call not found")
         ELSE /\ Len(recordings) < MaxRecs
              /\ recordings' =
                   Append(recordings,
                          NewRecording(save_recording_data(int(call_id_str),
                                                           int(duration_str), file)))
              /\ resp' = RespWith("save_recording", int(call_id_str), TRUE, None,
                                  Len(recordings) + 1)

\* --------------------------------------------- voip.recording record methods
\* message_post to the affected user may raise; nothing in the method catches
\* it, so the exception leaves the method and the transaction is rolled back.
share_with_users(id, user_ids, notify_ok) ==
  /\ RecExists(id)
  /\ UNCHANGED <<calls, now, req, partners>>
  /\ IF user_ids = {} \/ notify_ok
     THEN /\ recordings' = [recordings EXCEPT ![id].shared_with = @ \cup user_ids]
          /\ resp' = RespWith("share_with_users", NoId, TRUE, None, id)
     ELSE /\ UNCHANGED recordings
          /\ resp' = RespWith("share_with_users", NoId, FALSE, "message_post", id)

unshare_from_user(id, user_id, notify_ok) ==
  /\ RecExists(id)
  /\ UNCHANGED <<calls, now, req, partners>>
  /\ IF notify_ok
     THEN /\ recordings' = [recordings EXCEPT ![id].shared_with = @ \ {user_id}]
          /\ resp' = RespWith("unshare_from_user", NoId, TRUE, None, id)
     ELSE /\ UNCHANGED recordings
          /\ resp' = RespWith("unshare_from_user", NoId, FALSE, "message_post", id)

\* the act_url action_download_recording returns:
\* /web/content/voip.recording/{id}/recording_file/{filename}?download=true
download_url(id, filename) ==
  <<"/web/content/voip.recording", id, "recording_file", filename, "download=true">>

\* action_download_recording without the check for a file
action_download_recording_unchecked(id) ==
  /\ RecExists(id)
  /\ UNCHANGED <<calls, now, req, recordings, partners>>
  /\ resp' = RespUrl("action_download_recording", NoId, TRUE, None, id,
                     download_url(id, recordings[id].recording_filename))

action_download_recording(id) ==
  /\ RecExists(id)
  /\ UNCHANGED <<calls, now, req, recordings, partners>>
  /\ IF recordings[id].recording_file = <<>>
     THEN resp' = RespWith("action_download_recording", NoId, FALSE, "UserError", id)
     ELSE resp' = RespUrl("action_download_recording", NoId, TRUE, None, id,
                          download_url(id, recordings[id].recording_filename))

RecIdInputs == 1..(MaxRecs + 1)

NextRec ==
  \/ \E u \in OdooUsers, kw \in PlainCreateKwargs : create_call(u, kw)
  \/ \E id \in CallIdInputs, kw \in RecKwargs : create_recording(id, kw)
  \/ \E id \in RecIdInputs, file \in FileInputs : upload_recording(id, file)
  \/ \E file \in FileInputs, c \in FormCallIds, d \in FormDurations :
        save_recording(file, c, d)
  \/ \E id \in RecIdInputs, us \in SUBSET OdooUsers, ok \in BOOLEAN :
        share_with_users(id, us, ok)
  \/ \E id \in RecIdInputs, u \in OdooUsers, ok \in BOOLEAN :
        unshare_from_user(id, u, ok)
  \/ \E id \in RecIdInputs : action_download_recording(id)

SpecRec == Init /\ [][NextRec]_vars

\* ------------------------------------ upload_recording, requests interleaved
\* Two uploads are served by separate workers: each browses the recording and
\* reads its file, then writes.  The handler takes no lock and does not look
\* at the recording's state before it writes.
UploadReq(pc, id, vals, ok, err) ==
  [pc |-> pc, recording_id |-> id, vals |-> vals, success |-> ok, error |-> err]

upload_recording_read(r, recording_id, file) ==
  /\ req[r].pc = "idle"
  /\ UNCHANGED <<calls, now, resp, recordings, partners>>
  /\ IF ~RecExists(recording_id)
     THEN req' = [req EXCEPT ![r] =
                    UploadReq("done", recording_id, EmptyVals, FALSE,
                              "Recording not found")]
     ELSE IF Falsy(file)
     THEN req' = [req EXCEPT ![r] =
                    UploadReq("done", recording_id, EmptyVals, FALSE,
                              "No file provided")]
     ELSE req' = [req EXCEPT ![r] =
                    UploadReq("write", recording_id, upload_vals(file), TRUE, None)]

upload_recording_write(r) ==
  /\ req[r].pc = "write"
  /\ UNCHANGED <<calls, now, partners>>
  /\ recordings' = [recordings EXCEPT ![req[r].recording_id] =
                       RecWrite(@, req[r].vals)]
  /\ req' = [req EXCEPT ![r].pc = "done"]
  /\ resp' = RespWith("upload_recording", NoId, TRUE, None, req[r].recording_id)

NextConcUpload ==
  \/ \E u \in OdooUsers, kw \in PlainCreateKwargs : create_call(u, kw)
  \/ \E id \in CallIdInputs, kw \in RecKwargs : create_recording(id, kw)
  \/ \E r \in Requests, id \in RecIdInputs, file \in FileInputs :
        upload_recording_read(r, id, file)
  \/ \E r \in Requests : upload_recording_write(r)

SpecConcUpload == Init /\ [][NextConcUpload]_vars

\* the call operations and the recording operations together
NextAll ==
  \/ NextRec
  \/ \E id \in CallIdInputs, s \in StateInputs : update_call(id, s, NoKwargs)
  \/ \E id \in CallIdInputs : action_start_call(id)
  \/ \E id \in CallIdInputs, r \in EndReasons : action_end_call(id, r)
  \/ \E id \in CallIdInputs : action_mark_as_missed(id)

SpecAll == Init /\ [][NextAll]_vars

\* ============================================================ the directory
\* phone.replace(' ', '').replace('-', '').replace('(', '').replace(')', '')
Kept(c) == c \notin {" ", "-", "(", ")"}
clean(phone) == SelectSeq(Chars(phone), Kept)

\* needle occurs in hay
Contains(hay, needle) ==
  \E i \in 0..(Len(hay) - Len(needle)) :
     SubSeq(hay, i + 1, i + Len(needle)) = needle

\* (column, 'ilike', pattern): the pattern occurs in the column; an empty
\* pattern selects every row, a column without a value matches no other
ilike(stored, pattern) ==
  IF pattern = <<>> THEN TRUE
  ELSE stored # None /\ Contains(Chars(stored), pattern)

\* the search domain without its mobile clause
PartnerMatches_phone_only(phone) ==
  {p \in PartnerIds :
     \/ ilike(partners[p].phone, clean(phone))
     \/ ilike(partners[p].phone, Chars(phone))}

\* the rows selected by
\* ['|', '|', (phone ilike clean_phone), (mobile ilike clean_phone),
\*  (phone ilike phone)]
PartnerMatches(phone) ==
  {p \in PartnerIds :
     \/ ilike(partners[p].phone, clean(phone))
     \/ ilike(partners[p].mobile, clean(phone))
     \/ ilike(partners[p].phone, Chars(phone))}

\* _onchange_find_partner: the partners the form's onchange may put into
\* partner_id for a record with these values (none: partner_id is left alone)
find_partner(rec) ==
  LET phone == IF rec.direction = "inbound" THEN rec.from_number
               ELSE rec.to_number
  IN  IF phone \in {None, ""} THEN {} ELSE PartnerMatches(phone)

\* ------------------------------------------------ POST /voip/search/partner
\* search(..., limit=1) returns the first match in the table's own order,
\* which the handler does not choose: any match may be the one returned.
SearchReq(phone) == [pc |-> "done", phone |-> phone]

search_partner(phone) ==
  /\ UNCHANGED <<calls, now, recordings, partners>>
  /\ req' = [req EXCEPT ![1] = SearchReq(phone)]
  /\ IF phone = ""
     THEN resp' = Resp("search_partner", NoId, FALSE, "Phone number required")
     ELSE IF PartnerMatches(phone) = {}
     THEN resp' = RespWith("search_partner", NoId, TRUE, None, NoId)
     ELSE \E partner \in PartnerMatches(phone) :
            resp' = RespWith("search_partner", NoId, TRUE, None, partner)

InitDir ==
  /\ calls = <<>>
  /\ now = 1
  /\ resp = Resp("none", 0, TRUE, None)
  /\ req = [r \in Requests |-> IdleReq]
  /\ recordings = <<>>
  /\ partners \in Directories

NextDir == \E phone \in PhoneStrings : search_partner(phone)

SpecDir == InitDir /\ [][NextDir]_vars

\* ============================================================= list_calls
MaxListed == 2

\* voip.call rows as create_call and update_call leave them: ids are given in
\* the order of creation and start_time is the clock at creation, so
\* start_time does not decrease with the id
ListedCall(direction, state, t) ==
  [user_id |-> 10, direction |-> direction, state |-> state,
   from_number |-> "1001", to_number |-> "5551234567", partner_id |-> NoId,
   start_time |-> t, answer_time |-> Unset,
   end_time |-> IF state \in EndStates THEN MaxTime ELSE Unset,
   duration |-> 0,
   hangup_reason |-> IF state \in EndStates THEN "normal" ELSE None]
ListedCalls ==
  {ListedCall(d, s, t) : d \in Directions, s \in {"ringing", "completed"},
                         t \in Times}
CallTables ==
  {tbl \in UNION {[1..n -> ListedCalls] : n \in 0..MaxListed} :
     \A i \in DOMAIN tbl, j \in DOMAIN tbl :
        i < j => tbl[i].start_time <= tbl[j].start_time}

\* what a client can send to /voip/call/list
ListKwargs == [state : {None, "ringing", "bogus"}, direction : {None, "inbound"}]
Limits == {1, 50}
Offsets == {0, 1}

\* odoo_user_id: related field user_id.user_id
odoo_user_id(rec) ==
  (CHOOSE v \in VoipUserTable : v.id = rec.user_id).user_id

\* the ids selected by the domain list_calls builds
list_domain(u, kw) ==
  {id \in DOMAIN calls :
     /\ odoo_user_id(calls[id]) = u
     /\ (kw.state # None => calls[id].state = kw.state)
     /\ (kw.direction # None => calls[id].direction = kw.direction)}

\* order='start_time desc'; rows with the same start_time come in the
\* table's own order, which is the same for every query on an unchanged table
Before(a, b) ==
  \/ calls[a].start_time > calls[b].start_time
  \/ calls[a].start_time = calls[b].start_time /\ a < b
Ordered(ids) ==
  [k \in 1..Cardinality(ids) |->
     CHOOSE i \in ids : Cardinality({j \in ids : Before(j, i)}) + 1 = k]

\* search_calls with the default order of the table's primary key
search_calls_unordered(u, kw, limit, offset) ==
  LET ids == list_domain(u, kw)
      rows == [k \in 1..Cardinality(ids) |->
                 CHOOSE i \in ids : Cardinality({j \in ids : j < i}) + 1 = k]
      last == IF offset + limit < Len(rows) THEN offset + limit ELSE Len(rows)
  IN  SubSeq(rows, offset + 1, last)

\* search(domain, limit=limit, offset=offset, order='start_time desc')
search_calls(u, kw, limit, offset) ==
  LET rows == Ordered(list_domain(u, kw))
      last == IF offset + limit < Len(rows) THEN offset + limit ELSE Len(rows)
  IN  SubSeq(rows, offset + 1, last)

ListReq(u, kw, limit, offset) ==
  [pc |-> "done", user |-> u, kw |-> kw, limit |-> limit, offset |-> offset]

list_calls(u, kw, limit, offset) ==
  /\ UNCHANGED <<calls, now, recordings, partners>>
  /\ req' = [req EXCEPT ![1] = ListReq(u, kw, limit, offset)]
  /\ resp' = Answer("list_calls", NoId, TRUE, None, NoId, NoUrl,
                    search_calls(u, kw, limit, offset))

InitList ==
  /\ calls \in CallTables
  /\ now = MaxTime
  /\ resp = Resp("none", 0, TRUE, None)
  /\ req = [r \in Requests |-> IdleReq]
  /\ recordings = <<>>
  /\ partners = DefaultDirectory

NextList ==
  \/ \E u \in OdooUsers, kw \in ListKwargs, l \in Limits, o \in Offsets :
        list_calls(u, kw, l, o)
  \/ \E id \in DOMAIN calls, s \in {"in_progress", "completed"} :
        update_call(id, s, NoKwargs)

SpecList == InitList /\ [][NextList]_vars

\* ===================================================================== claims
\* the terminal states of a call session
TerminalStates == {"completed", "missed", "failed", "busy", "rejected"}

\* the transition table of the call session
AllowedTransitions ==
  {<<"ringing", "in_progress">>}
  \cup ({"ringing"} \X {"missed", "failed", "busy", "rejected"})
  \cup ({"in_progress"} \X {"completed", "failed", "busy", "rejected"})

\* an update, terminate or mark-as-missed attempt on call id
AttemptOn(id) ==
  \/ \E s \in StateInputs, kw \in UpdateKwargs : update_call(id, s, kw)
  \/ \E r \in EndReasons : action_end_call(id, r)
  \/ action_mark_as_missed(id)

\* C1: the only state changes that ever take effect on a call are those of the
\* transition table: ringing->in_progress, ringing->{missed, failed, busy,
\* rejected}, in_progress->{completed, failed, busy, rejected}; any other
\* requested change leaves the stored state as it was.
C1_OnlyTableTransitions ==
  [][\A id \in DOMAIN calls :
       calls'[id].state # calls[id].state
         => <<calls[id].state, calls'[id].state>> \in AllowedTransitions]_vars

\* C2: terminal states are absorbing: an update, terminate or mark-as-missed
\* attempt on a call in a terminal state is rejected with InvalidTransition and
\* changes none of state, answer_time, end_time, hangup_reason.
C2_TerminalAbsorbing ==
  [][\A id \in DOMAIN calls :
       calls[id].state \in TerminalStates
         => /\ calls'[id].state = calls[id].state
            /\ calls'[id].answer_time = calls[id].answer_time
            /\ calls'[id].end_time = calls[id].end_time
            /\ calls'[id].hangup_reason = calls[id].hangup_reason
            /\ (AttemptOn(id)
                  => ~resp'.success /\ resp'.error = "InvalidTransition")]_vars

\* C3: after every successful create the new call is in state ringing, its
\* start_time is set and its answer_time and end_time are unset, whatever the
\* caller put in the request.
C3_CreateYieldsRinging ==
  (resp.op = "create_call" /\ resp.success)
    => /\ resp.call_id \in DOMAIN calls
       /\ calls[resp.call_id].state = "ringing"
       /\ calls[resp.call_id].start_time \in Times
       /\ calls[resp.call_id].answer_time = Unset
       /\ calls[resp.call_id].end_time = Unset

\* a create has just succeeded
C3_Witness ==
  /\ resp.op = "create_call"
  /\ resp.success
  /\ Len(calls) = resp.call_id
  /\ calls[resp.call_id].state = "ringing"
  /\ calls[resp.call_id].start_time = now

\* C4: terminate (action_end_call) applied to a ringing call yields missed and
\* applied to an in_progress call yields completed; a call terminated from
\* ringing is never left in state completed.
C4_TerminateMapsState ==
  [][\A id \in DOMAIN calls, r \in EndReasons :
       action_end_call(id, r)
         => /\ calls[id].state = "ringing" => calls'[id].state = "missed"
            /\ calls[id].state = "in_progress" => calls'[id].state = "completed"]_vars

\* a never-answered call was terminated with reason no-answer and is missed
C4_Witness ==
  /\ resp.op = "action_end_call"
  /\ calls[resp.call_id].state = "missed"
  /\ calls[resp.call_id].answer_time = Unset
  /\ calls[resp.call_id].hangup_reason = "no-answer"
  /\ calls[resp.call_id].end_time = now

\* C5: answer_time goes from unset to set only in a step that moves the state
\* from ringing to in_progress, and once set it never changes.
C5_AnswerTimeSetOnce ==
  [][\A id \in DOMAIN calls :
       /\ (calls[id].answer_time = Unset /\ calls'[id].answer_time # Unset)
            => (calls[id].state = "ringing" /\ calls'[id].state = "in_progress")
       /\ calls[id].answer_time # Unset
            => calls'[id].answer_time = calls[id].answer_time]_vars

\* C6: end_time goes from unset to set only in a step that moves the state from
\* a non-terminal to a terminal state, and an end_time that is set is never
\* overwritten.
C6_EndTimeSetOnce ==
  [][\A id \in DOMAIN calls :
       /\ (calls[id].end_time = Unset /\ calls'[id].end_time # Unset)
            => (calls[id].state \notin TerminalStates
                /\ calls'[id].state \in TerminalStates)
       /\ calls[id].end_time # Unset
            => calls'[id].end_time = calls[id].end_time]_vars

\* C7: the stored duration of every call is max(0, end_time - answer_time)
\* when both are set and 0 otherwise; it is never negative.
C7_DurationClamped ==
  \A id \in DOMAIN calls :
    LET c == calls[id]
        d == IF c.answer_time # Unset /\ c.end_time # Unset
             THEN c.end_time - c.answer_time ELSE 0
    IN  /\ c.duration = (IF d < 0 THEN 0 ELSE d)
        /\ c.duration >= 0

\* the client-supplied timestamps of an update move backward
BackwardTimestamps(rec, kw) ==
  \/ kw.answer_time # Unset /\ kw.answer_time < rec.start_time
  \/ kw.end_time # Unset /\ rec.answer_time # Unset
       /\ kw.end_time < rec.answer_time

\* C8: an update whose client-supplied answer_time is earlier than start_time,
\* or whose client-supplied end_time is earlier than answer_time, fails before
\* any mutation: the call is unchanged and the answer is not a success.
C8_BackwardTimestampsRejected ==
  [][\A id \in DOMAIN calls, s \in CallStates, kw \in UpdateKwargs :
       (update_call(id, s, kw) /\ BackwardTimestamps(calls[id], kw))
         => (~resp'.success /\ calls' = calls)]_vars

\* C9: of two update requests with different terminal targets that both read
\* the same non-terminal call before either wrote, exactly one succeeds, the
\* other is answered Conflict, and what is stored is the winner's write alone.
C9_ExactlyOneWins ==
  \A p \in Requests, q \in Requests :
    ( /\ p # q
      /\ req[p].pc = "done" /\ req[q].pc = "done"
      /\ req[p].call_id = req[q].call_id
      /\ "state" \in DOMAIN req[p].vals /\ "state" \in DOMAIN req[q].vals
      /\ req[p].seen = req[q].seen
      /\ req[p].seen.state \notin TerminalStates
      /\ req[p].vals.state \in TerminalStates
      /\ req[q].vals.state \in TerminalStates
      /\ req[p].vals.state # req[q].vals.state )
    => \E w \in {p, q} :
         LET l == IF w = p THEN q ELSE p
         IN  /\ req[w].success
             /\ ~req[l].success
             /\ req[l].error = "Conflict"
             /\ calls[req[w].call_id].state = req[w].vals.state
             /\ calls[req[w].call_id].end_time = req[w].vals.end_time
             /\ calls[req[w].call_id].hangup_reason = req[w].vals.hangup_reason

\* a create request that names no from_number or to_number, an empty one, or
\* no valid direction
InvalidCreate(kw) ==
  \/ kw.from_number \in {None, ""}
  \/ kw.to_number \in {None, ""}
  \/ kw.direction \notin Directions

\* C10: create with an empty or missing from_number or to_number, or a missing
\* or invalid direction, fails and creates no call record; a missing direction
\* is not replaced by a default.
C10_InvalidCreateRejected ==
  [][\A u \in OdooUsers, kw \in CreateKwargs :
       (create_call(u, kw) /\ InvalidCreate(kw))
         => (~resp'.success /\ calls' = calls)]_vars

\* a failed answer with the given error that changed no stored record
NotFoundStep(err) ==
  /\ ~resp'.success
  /\ resp'.error = err
  /\ UNCHANGED <<calls, recordings>>

\* C11: update_call and create_recording on an unknown call id, and
\* upload_recording on an unknown recording id, answer with a not-found
\* error and leave every stored call and recording as it was.  (resp' names
\* the operation of the step and the id it was given.)
C11_UnknownReferenceNotFound ==
  [][/\ (resp'.op \in {"update_call", "create_recording"} /\ ~Exists(resp'.call_id))
          => NotFoundStep("Call not found")
     /\ (resp'.op = "upload_recording" /\ ~RecExists(resp'.result))
          => NotFoundStep("Recording not found")]_vars

\* an upload to an unknown recording id was refused while a recording exists
C11_Witness ==
  /\ resp.op = "upload_recording"
  /\ resp.error = "Recording not found"
  /\ ~RecExists(resp.result)
  /\ recordings # <<>>

\* C12: no operation on calls or recordings changes the direction,
\* from_number or to_number of a stored call.
C12_PartiesFixed ==
  [][\A id \in DOMAIN calls :
        /\ id \in DOMAIN calls'
        /\ calls'[id].direction = calls[id].direction
        /\ calls'[id].from_number = calls[id].from_number
        /\ calls'[id].to_number = calls[id].to_number]_vars

\* a call has been updated to its end and a recording of it has been uploaded
C12_Witness ==
  /\ calls # <<>>
  /\ calls[1].state = "completed"
  /\ calls[1].direction = "outbound"
  /\ recordings # <<>>
  /\ recordings[1].call_id = 1
  /\ recordings[1].state = "completed"
  /\ recordings[1].file_size > 0

\* C13: a successful upload_recording leaves the recording completed, with
\* the file and its name attached and file_size the number of bytes uploaded.
C13_FileSizeIsByteCount ==
  [][\A id \in RecIdInputs, file \in FileInputs :
       (upload_recording(id, file) /\ resp'.success)
         => /\ recordings'[id].state = "completed"
            /\ recordings'[id].recording_file = b64encode(file.data)
            /\ recordings'[id].recording_filename = file.filename
            /\ recordings'[id].file_size = Len(file.data)]_vars

\* the four fields an upload commits
Uploaded(rec) ==
  <<rec.recording_file, rec.recording_filename, rec.file_size, rec.state>>

\* C14: an upload_recording step either leaves file, filename, file_size and
\* state of the recording as they were or commits the uploaded file, its
\* name, a size and state completed together; a save_recording step either
\* stores no record or one record with all four; a failed answer of either
\* changed nothing.
C14_UploadAllOrNothing ==
  [][/\ \A id \in RecIdInputs, file \in FileInputs :
          upload_recording(id, file)
            => /\ ~resp'.success => recordings' = recordings
               /\ RecExists(id) =>
                    \/ Uploaded(recordings'[id]) = Uploaded(recordings[id])
                    \/ /\ resp'.success
                       /\ recordings'[id].state = "completed"
                       /\ recordings'[id].recording_file = b64encode(file.data)
                       /\ recordings'[id].recording_filename = file.filename
                       /\ recordings'[id].file_size
                            \in {Len(file.data), Len(b64encode(file.data))}
     /\ \A file \in FileInputs, c \in FormCallIds, d \in FormDurations :
          save_recording(file, c, d)
            => \/ ~resp'.success /\ recordings' = recordings
               \/ /\ resp'.success
                  /\ recordings' = Append(recordings, recordings'[Len(recordings')])
                  /\ recordings'[Len(recordings')].state = "completed"
                  /\ recordings'[Len(recordings')].recording_file = b64encode(file.data)
                  /\ recordings'[Len(recordings')].recording_filename # None
                  /\ recordings'[Len(recordings')].file_size = Len(file.data)]_vars

\* an upload has just committed a file to a recording that was opened before
C14_Witness ==
  /\ resp.op = "upload_recording"
  /\ resp.success
  /\ RecExists(resp.result)
  /\ recordings[resp.result].state = "completed"
  /\ recordings[resp.result].recording_file # <<>>
  /\ recordings[resp.result].recording_filename = "x.webm"

\* C15: of two uploads to the same recording that both passed the checks
\* before either wrote, one succeeds and the other is answered Conflict, and
\* what is stored is the file, filename and size of the one that succeeded.
C15_SecondUploadConflicts ==
  \A p \in Requests, q \in Requests :
    ( /\ p # q
      /\ req[p].pc = "done" /\ req[q].pc = "done"
      /\ req[p].recording_id = req[q].recording_id
      /\ "state" \in DOMAIN req[p].vals /\ "state" \in DOMAIN req[q].vals )
    => \E w \in {p, q} :
         LET l == IF w = p THEN q ELSE p
             rec == recordings[req[w].recording_id]
         IN  /\ req[w].success
             /\ ~req[l].success
             /\ req[l].error = "Conflict"
             /\ rec.recording_file = req[w].vals.recording_file
             /\ rec.recording_filename = req[w].vals.recording_filename
             /\ rec.file_size = req[w].vals.file_size

\* C16: once a recording is completed or failed, no step changes its state,
\* file, filename, file_size or duration.
C16_TerminalRecordingFrozen ==
  [][\A id \in DOMAIN recordings :
        recordings[id].state \in {"completed", "failed"}
          => /\ id \in DOMAIN recordings'
             /\ Uploaded(recordings'[id]) = Uploaded(recordings[id])
             /\ recordings'[id].duration = recordings[id].duration]_vars

\* C17: the recording a successful create_recording answers with is in state
\* recording and has no file, whatever the request carried.
C17_OpenedInStateRecording ==
  (resp.op = "create_recording" /\ resp.success)
    => /\ RecExists(resp.result)
       /\ recordings[resp.result].state = "recording"
       /\ recordings[resp.result].recording_file = <<>>

\* every field of a recording but its shared_with set
NotShared(rec) == [f \in DOMAIN rec \ {"shared_with"} |-> rec[f]]

\* C18: share_with_users and unshare_from_user change shared_with and nothing
\* else, and they succeed and keep the change also when message_post fails.
C18_NotificationFailureTolerated ==
  [][/\ \A id \in RecIdInputs, us \in SUBSET OdooUsers, ok \in BOOLEAN :
          share_with_users(id, us, ok)
            => /\ resp'.success
               /\ recordings'[id].shared_with = recordings[id].shared_with \cup us
               /\ NotShared(recordings'[id]) = NotShared(recordings[id])
               /\ calls' = calls
     /\ \A id \in RecIdInputs, u \in OdooUsers, ok \in BOOLEAN :
          unshare_from_user(id, u, ok)
            => /\ resp'.success
               /\ recordings'[id].shared_with = recordings[id].shared_with \ {u}
               /\ NotShared(recordings'[id]) = NotShared(recordings[id])
               /\ calls' = calls]_vars

\* C19: a call that create_call stored has partner_id set whenever the
\* directory holds a contact matching the external party's number (to_number
\* of an outbound call, from_number of an inbound one).
C19_CreateResolvesContact ==
  \A id \in DOMAIN calls :
     find_partner(calls[id]) # {} => calls[id].partner_id \in find_partner(calls[id])

\* the digits of a phone string: what is left of it without spaces, hyphens
\* and parentheses
IsDigit(c) == c \in {"0", "1", "2", "3", "4", "5", "6", "7", "8", "9"}
Digits(phone) == SelectSeq(Chars(phone), IsDigit)

\* the contacts whose stored phone or stored mobile is the stripped input
EqualContacts(phone) ==
  {p \in PartnerIds :
     \/ partners[p].phone # None /\ Chars(partners[p].phone) = Digits(phone)
     \/ partners[p].mobile # None /\ Chars(partners[p].mobile) = Digits(phone)}

\* C20: a search whose input, stripped of spaces, hyphens and parentheses,
\* equals a contact's stored phone or stored mobile is answered with a
\* contact; a search for a given phone that selects no contact is answered
\* success with an empty result, and no search for a given phone is answered
\* with an error.
C20_SearchPartner ==
  (resp.op = "search_partner")
    => LET phone == req[1].phone
       IN  /\ EqualContacts(phone) # {}
             => (resp.success /\ resp.result \in PartnerIds)
           /\ (phone # "" /\ PartnerMatches(phone) = {})
             => (resp.success /\ resp.result = NoId)
           /\ phone # "" => (resp.success /\ resp.error = None)
           /\ resp.result # NoId => resp.result \in PartnerMatches(phone)

\* a search found a contact through its mobile number: no contact of the
\* directory has a phone stored
C20_Witness ==
  /\ resp.op = "search_partner"
  /\ req[1].phone = "07700"
  /\ resp.success
  /\ resp.result \in PartnerIds
  /\ partners[resp.result].phone = None
  /\ partners[resp.result].mobile = "07700"
  /\ \A p \in PartnerIds : partners[p].phone = None

\* C24: a stored call has end_time set exactly when its state is terminal,
\* and a hangup_reason only when its state is terminal.
C24_EndTimeIffTerminal ==
  \A id \in DOMAIN calls :
     /\ (calls[id].end_time # Unset) <=> (calls[id].state \in TerminalStates)
     /\ (calls[id].hangup_reason # None) => (calls[id].state \in TerminalStates)

\* C25: a stored recording in state completed has a file and a filename
\* attached, and one in state recording has neither.
C25_CompletedHasPayload ==
  \A id \in DOMAIN recordings :
     /\ recordings[id].state = "completed"
          => /\ recordings[id].recording_file # <<>>
             /\ recordings[id].recording_filename # None
     /\ recordings[id].state = "recording"
          => /\ recordings[id].recording_file = <<>>
             /\ recordings[id].recording_filename = None

\* C21: action_download_recording on a recording without a file raises
\* UserError and returns no URL; on a recording with a file it returns the
\* URL of that file; either way nothing stored changes.
C21_DownloadUrl ==
  [][resp'.op = "action_download_recording"
       => /\ UNCHANGED <<calls, recordings, partners>>
          /\ IF recordings[resp'.result].recording_file = <<>>
             THEN /\ ~resp'.success
                  /\ resp'.error = "UserError"
                  /\ resp'.url = NoUrl
             ELSE /\ resp'.success
                  /\ resp'.url =
                       download_url(resp'.result,
                                    recordings[resp'.result].recording_filename)]_vars

\* a download of a recording with an uploaded file was answered with a URL
C21_Witness ==
  /\ resp.op = "action_download_recording"
  /\ resp.success
  /\ resp.url # NoUrl
  /\ recordings[resp.result].recording_file # <<>>

\* C22: list_calls answers with calls of the requesting user only, each
\* matching the state and direction filters that were given, no call twice,
\* in non-increasing start_time order; it changes no call and no recording,
\* and the same request repeated right after it gets the same list.
C22_ListIsPureOrderedQuery ==
  [][resp'.op = "list_calls"
       => LET u == req'[1].user
              kw == req'[1].kw
              rows == resp'.list
          IN  /\ UNCHANGED <<calls, recordings>>
              /\ resp'.success
              /\ \A k \in DOMAIN rows :
                    /\ rows[k] \in DOMAIN calls
                    /\ odoo_user_id(calls[rows[k]]) = u
                    /\ (kw.state # None => calls[rows[k]].state = kw.state)
                    /\ (kw.direction # None
                          => calls[rows[k]].direction = kw.direction)
              /\ \A k \in DOMAIN rows, l \in DOMAIN rows :
                    k < l => /\ rows[k] # rows[l]
                             /\ calls[rows[k]].start_time >= calls[rows[l]].start_time
              /\ (resp.op = "list_calls" /\ req[1] = req'[1])
                    => resp'.list = resp.list]_vars

\* a list of two calls of the user, the later one first
C22_Witness ==
  /\ resp.op = "list_calls"
  /\ Len(resp.list) = 2
  /\ calls[resp.list[1]].start_time > calls[resp.list[2]].start_time
  /\ resp.list[1] > resp.list[2]

\* the routes of the controller
BoundaryOps ==
  {"create_call", "update_call", "list_calls", "create_recording",
   "upload_recording", "save_recording", "search_partner"}

\* C23: every answer of a controller route carries a success flag, a
\* successful one no error and a failed one an error message, and a step
\* answered as a failure changes no call and no recording.
C23_StructuredAnswers ==
  [][resp'.op \in BoundaryOps
       => /\ resp'.has_flag
          /\ resp'.success => resp'.error = None
          /\ ~resp'.success
               => /\ resp'.error # None
                  /\ UNCHANGED <<calls, recordings, partners>>]_vars

====
